---- MODULE Spec2Model ----
(***************************************************************************)
(* A model of the JSON-RPC wallet gateway:                                 *)
(*   - the POST dispatch handler of src/src/ethers/server.ts,              *)
(*   - the epoch-chain (Conflux) wallet wrapper of                         *)
(*     src/src/lib/conflux/wrapper.ts,                                     *)
(*   - the claim-chain (Reef) wallet wrapper of src/unnamed/part_000.      *)
(* Each component has its own next-state relation and specification; the   *)
(* variables of the other components stay at their initial values.        *)
(***************************************************************************)
EXTENDS Integers, Sequences, FiniteSets, TLC

(***************************************************************************)
(* JavaScript values.  An optional value (a property that may be           *)
(* undefined) is a sequence of length 0 or 1.                              *)
(***************************************************************************)
None == <<>>
Some(x) == <<x>>
IsSome(o) == o # <<>>
Val(o) == o[1]

\* JavaScript truthiness of an optional number / an optional string.
TruthyNum(o) == IsSome(o) /\ Val(o) # 0
TruthyStr(o) == IsSome(o) /\ Val(o) # ""

\* `"${s}"` : the template literal of server.ts line 139.
Quote(s) == "\"" \o s \o "\""

(***************************************************************************)
(* Bounds of the model.                                                    *)
(***************************************************************************)
\* The POST handler serves one request at a time.
Slots == {1}
\* The invocations of two requests that are in flight together.
PairSlots == {1, 2}

(***************************************************************************)
(* State.                                                                  *)
(***************************************************************************)
\* The dispatcher.
VARIABLES
  reqPc,          \* per slot: where the POST handler of that request stands
  request,        \* per slot: the request body
  sent,           \* per slot: the HTTP responses sent, in order
  escaped,        \* per slot: an exception left the handler
  upstreamCalls,  \* per slot: the dispatcher's provider.send calls
  handlerCalls,   \* per slot: the bound handler calls
  awaited,        \* per slot: what the awaited call returned or threw
  logs            \* per slot: the log lines

serverVars == <<reqPc, request, sent, escaped, upstreamCalls, handlerCalls, awaited, logs>>

\* The epoch-chain wrapper.
VARIABLES
  cfxWallet,             \* conflux.wallet: the addresses, in insertion order
  estimateGasPrice,      \* this.estimateGasPrice
  alwaysSynced,          \* this.alwaysSynced
  lastKnownEpochNumber,  \* this.lastKnownEpochNumber
  chainNonce,            \* the chain: next nonce of each address
  cfxTask,               \* per task: the request being served and its locals
  signMessageCalls       \* the accounts' signMessage invocations

cfxVars == <<cfxWallet, estimateGasPrice, alwaysSynced, lastKnownEpochNumber, chainNonce,
             cfxTask, signMessageCalls>>

\* The claim-chain wrapper.
VARIABLES
  reefAccounts,   \* this.accounts
  reefSigners,    \* this.signers: the identity of each signer
  keyringPairs,   \* this.keyringPairs: the identity of each pair
  signingKeyPairs,\* the pairs added to this.signingKey
  seedPhrase,     \* this.seedPhrase
  setupPc,        \* where setup() stands
  setupJ,         \* the loop index of setup()
  claimed,        \* the chain: which identities have a claimed EVM address
  claimsIssued,   \* the claimDefaultAccount calls, in order
  reefNonce,      \* the chain: transaction count of each identity
  reefTask        \* per task: the request being served and its locals

reefVars == <<reefAccounts, reefSigners, keyringPairs, signingKeyPairs, seedPhrase,
              setupPc, setupJ, claimed, claimsIssued, reefNonce, reefTask>>

reefWallet == <<reefAccounts, reefSigners, keyringPairs, signingKeyPairs, seedPhrase,
                setupPc, setupJ, claimed, claimsIssued>>

vars == <<reqPc, request, sent, escaped, upstreamCalls, handlerCalls, awaited, logs,
          cfxWallet, estimateGasPrice, alwaysSynced, lastKnownEpochNumber, chainNonce,
          cfxTask, signMessageCalls,
          reefAccounts, reefSigners, keyringPairs, signingKeyPairs, seedPhrase,
          setupPc, setupJ, claimed, claimsIssued, reefNonce, reefTask>>

(***************************************************************************)
(* The dispatcher: requests, handler outcomes, thrown values.              *)
(***************************************************************************)
\* The keys of the `handlers` object literal.
HandlerKeys == {"eth_accounts", "eth_sendTransaction", "eth_sign"}

\* Keys every object literal inherits from Object.prototype: the `in`
\* operator walks the prototype chain.
ObjectPrototypeKeys == {"toString", "constructor", "__proto__"}

\* A handlers table that lacks the eth_sign entry.
InHandlersWithoutSign(method) ==
  method \in (HandlerKeys \ {"eth_sign"}) \cup ObjectPrototypeKeys

\* `request.method in handlers`
InHandlers(method) == method \in HandlerKeys \cup ObjectPrototypeKeys

Methods == HandlerKeys \cup ObjectPrototypeKeys \cup {"eth_call", "eth_blockNumber"}

ParamsSet == {None, Some(<<>>), Some(<<"p1">>), Some(<<"p1", "p2">>)}

Requests == [id : {1, 2}, jsonrpc : {"2.0"}, method : Methods, params : ParamsSet]

NoRequest == [id |-> 0, jsonrpc |-> "", method |-> "", params |-> None]

\* The value of an `error` member, as the client receives it.
NoErrVal == [shape |-> "none", code |-> None, message |-> None, data |-> None, text |-> ""]
ErrObj(code, message, data) ==
  [shape |-> "object", code |-> code, message |-> message, data |-> data, text |-> ""]
ErrString(s) ==
  [shape |-> "string", code |-> None, message |-> None, data |-> None, text |-> s]

\* A JSON document, as far as the handler looks into it: its kind and its
\* `error` member.
DocObject(err) == [kind |-> "object", error |-> err]
DocNull == [kind |-> "null", error |-> None]
DocScalar == [kind |-> "scalar", error |-> None]

\* A `body`: an object, or a string (valid JSON text or not).
BodyObject(doc) == [isString |-> FALSE, valid |-> TRUE, doc |-> doc, raw |-> ""]
BodyString(valid, doc, raw) == [isString |-> TRUE, valid |-> valid, doc |-> doc, raw |-> raw]

\* body: { error: { code: -32000, message: reason } }  (the wrappers' typed failures)
BodyNoSigningKey == BodyObject(DocObject(Some(ErrObj(Some(-32000), Some("no key"), None))))
\* body: { code: -32500, message: reason }  (getEthFilterChanges: no `error` member)
BodyUnsupportedFilter == BodyObject(DocObject(None))
\* the raw text of an upstream JSON-RPC error response
BodyUpstreamText ==
  BodyString(TRUE, DocObject(Some(ErrObj(Some(3), Some("reverted"), Some("0xdata")))), "{upstream}")
\* a body that is not JSON
BodyHtmlText == BodyString(FALSE, DocNull, "<html>")
\* the JSON text `null`
BodyNullText == BodyString(TRUE, DocNull, "null")

Bodies == {None, Some(BodyNoSigningKey), Some(BodyUnsupportedFilter),
           Some(BodyUpstreamText), Some(BodyHtmlText), Some(BodyNullText)}

\* exception.error: a nested error with its own reason and body.
NestedErrors ==
  {None} \cup
  {Some([reason |-> r, body |-> b]) :
     r \in {None, Some("nested reason")}, b \in {None, Some(BodyUpstreamText)}}

\* Thrown values: null, undefined, a string, or an object with any of the
\* members the handler reads.
ThrownPrimitive(t, s) ==
  [t |-> t, str |-> s, isError |-> FALSE, code |-> None, reason |-> None,
   message |-> None, data |-> None, body |-> None, error |-> None]
ThrownNull == ThrownPrimitive("null", "null")
ThrownUndefined == ThrownPrimitive("undefined", "undefined")
ThrownString == ThrownPrimitive("string", "boom")
\* TypeError: handlers[request.method].bind is not a function
ThrownTypeError ==
  [t |-> "object", str |-> "", isError |-> TRUE, code |-> None, reason |-> None,
   message |-> Some("bind is not a function"), data |-> None, body |-> None, error |-> None]

ThrownObjects ==
  [t : {"object"}, str : {""}, isError : BOOLEAN,
   code : {None, Some(0), Some(-32000)},
   reason : {None, Some("a reason")},
   message : {None, Some("x")},
   data : {None, Some("0xdata")},
   body : Bodies,
   error : NestedErrors]

Thrown == {ThrownNull, ThrownUndefined, ThrownString} \cup ThrownObjects

\* Returned values: undefined, JSON null, a string.
Returned == {None, Some("null"), Some("0xbeef")}

Returns(v) == [kind |-> "return", value |-> v, exc |-> ThrownUndefined]
Throws(e) == [kind |-> "throw", value |-> None, exc |-> e]

Outcomes == {Returns(v) : v \in Returned} \cup {Throws(e) : e \in Thrown}

\* Nothing returned or thrown yet.
NoOutcome == [kind |-> "none", value |-> None, exc |-> ThrownUndefined]


\* What the handler does with a key it finds in `handlers`.  For the three
\* table entries the bound wallet handler runs, and may return or throw
\* anything; for an inherited key the inherited Object.prototype member is
\* called: toString returns "[object Object]", constructor (Object) returns
\* an object, and __proto__ has no `bind`, a TypeError.
HandlerOutcomes(method) ==
  CASE method \in HandlerKeys -> Outcomes
    [] method = "toString" -> {Returns(Some("[object Object]"))}
    [] method = "constructor" -> {Returns(Some("[object]"))}
    [] OTHER -> {Throws(ThrownTypeError)}

\* What provider.send may do: resolve with a value or reject with anything.
UpstreamOutcomes == Outcomes

(***************************************************************************)
(* The error normalisation of the catch block, server.ts 110-157.          *)
(***************************************************************************)
\* exception.toString()
ExceptionToString(e) ==
  CASE e.t = "string" -> e.str
    [] e.t = "object" /\ e.isError ->
         IF TruthyStr(e.message) THEN "Error: " \o Val(e.message) ELSE "Error"
    [] OTHER -> "[object Object]"

\* One member of a JSON text, when the property is defined.
JSONMember(name, present, text) ==
  IF present THEN <<Quote(name) \o ":" \o text>> ELSE <<>>

RECURSIVE JoinComma(_)
JoinComma(parts) ==
  IF parts = <<>> THEN ""
  ELSE IF Len(parts) = 1 THEN parts[1]
  ELSE parts[1] \o "," \o JoinComma(Tail(parts))

\* JSON.stringify(exception): a string is quoted; an object lists its own
\* enumerable members (an Error's message is not enumerable).
JSONStringifyThrown(e) ==
  IF e.t = "string" THEN Quote(e.str)
  ELSE "{" \o JoinComma(
         JSONMember("code", IsSome(e.code), IF IsSome(e.code) THEN ToString(Val(e.code)) ELSE "")
         \o JSONMember("reason", IsSome(e.reason), IF IsSome(e.reason) THEN Quote(Val(e.reason)) ELSE "")
         \o JSONMember("message", IsSome(e.message) /\ ~e.isError,
                       IF IsSome(e.message) THEN Quote(Val(e.message)) ELSE "")
         \o JSONMember("data", IsSome(e.data), IF IsSome(e.data) THEN Quote(Val(e.data)) ELSE "")
         \o JSONMember("body", IsSome(e.body), "...")
         \o JSONMember("error", IsSome(e.error), "...")) \o "}"

\* Lines 111-126: a thrown value without a (truthy) code is replaced by an
\* execution error carrying code -32015.
WrapExecutionError(e) ==
  [t |-> "object", str |-> "", isError |-> FALSE, code |-> None,
   reason |-> Some(ExceptionToString(e)),
   message |-> None, data |-> None,
   body |-> Some(BodyObject(DocObject(Some(ErrObj(
              Some(-32015),
              Some(IF TruthyStr(e.data) THEN "Execution error" ELSE JSONStringifyThrown(e)),
              e.data))))),
   error |-> None]

NormalizedException(e) == IF ~TruthyNum(e.code) THEN WrapExecutionError(e) ELSE e

\* Truthiness of a thrown value / of a body.
TruthyThrown(e) == e.t = "object" \/ (e.t = "string" /\ e.str # "")
TruthyBody(o) == IsSome(o) /\ (Val(o).isString => Val(o).raw # "")

\* Lines 127-131, as the template literal of line 139 renders it.
MessageOf(e) ==
  IF TruthyStr(e.reason) THEN Val(e.reason)
  ELSE IF IsSome(e.error) /\ TruthyStr(Val(e.error).reason) THEN Val(Val(e.error).reason)
  ELSE IF TruthyThrown(e) THEN ExceptionToString(e)
  ELSE "null exception"

\* Lines 132-142.
BodyOf(e) ==
  IF TruthyBody(e.body) THEN Val(e.body)
  ELSE IF IsSome(e.error) /\ TruthyBody(Val(e.error).body) THEN Val(Val(e.error).body)
  ELSE BodyObject(DocObject(Some(ErrObj(
         Some(IF TruthyNum(e.code) THEN Val(e.code) ELSE -32099),
         Some(Quote(MessageOf(e))),
         e.data))))

\* JSON.stringify of a body object: members that are undefined are left out
\* (an optional member that is None), the others are kept.
JSONStringifyDoc(doc) ==
  CASE doc.kind = "null" -> "null"
    [] doc.kind = "scalar" -> "0"
    [] OTHER -> IF IsSome(doc.error) THEN "{\"error\":{...}}" ELSE "{...}"

\* Line 143.
BodyText(b) == IF b.isString THEN b ELSE BodyString(TRUE, b.doc, JSONStringifyDoc(b.doc))

\* JSON.parse(body).error : a SyntaxError for text that is not JSON, a
\* TypeError for the text `null`, undefined for a document without the member.
ParseErrorMember(text) ==
  IF ~text.valid THEN [ok |-> FALSE, error |-> None]
  ELSE IF text.doc.kind = "null" THEN [ok |-> FALSE, error |-> None]
  ELSE [ok |-> TRUE, error |-> text.doc.error]

\* Line 154.
InvalidJsonFallback == ErrString("{ \"code\": -32700, \"message\": \"Invalid JSON response\" }")

\* A header that numbers the responses itself instead of echoing the request.
HeaderOfServer(req) == [jsonrpc |-> "2.0", id |-> 0]

\* Lines 85-88: const header = { jsonrpc: request.jsonrpc, id: request.id }
Header(req) == [jsonrpc |-> req.jsonrpc, id |-> req.id]

\* The response object: its own keys and their values (a key may hold undefined).
SuccessResponse(req, result) ==
  [id |-> Header(req).id, jsonrpc |-> Header(req).jsonrpc, keys |-> {"result"},
   result |-> result, error |-> None]

ErrorResponse(req, e) ==
  LET parsed == ParseErrorMember(BodyText(BodyOf(NormalizedException(e)))) IN
  [id |-> Header(req).id, jsonrpc |-> Header(req).jsonrpc, keys |-> {"error"},
   result |-> None,
   error |-> IF parsed.ok THEN parsed.error ELSE Some(InvalidJsonFallback)]

\* res.status(200).json(response): JSON.stringify leaves out every key whose
\* value is undefined.
WireResponse(response) ==
  [status |-> 200, id |-> response.id, jsonrpc |-> response.jsonrpc,
   hasResult |-> "result" \in response.keys /\ IsSome(response.result),
   result |-> response.result,
   hasError |-> "error" \in response.keys /\ IsSome(response.error),
   error |-> response.error]

\* The log lines of the handler after the await (147-151, 158-170).
ResponseLogs(req, outcome, response) ==
  (IF outcome.kind = "throw"
      /\ ~ParseErrorMember(BodyText(BodyOf(NormalizedException(outcome.exc)))).ok
   THEN <<[level |-> "error",
           message |-> "<= Invalid JSON: "
                       \o BodyText(BodyOf(NormalizedException(outcome.exc))).raw]>>
   ELSE <<>>)
  \o <<[level |-> IF IsSome(response.error) THEN "warn" ELSE "debug",
        message |-> IF IsSome(response.error) THEN "<= Error" ELSE "<<"]>>

\* Lines 64-108, up to the await: the request is logged and either the bound
\* handler is called with the params spread and the socket appended, or the
\* method and params are handed to provider.send.
Post(s, req) ==
  /\ reqPc[s] = "idle"
  /\ request' = [request EXCEPT ![s] = req]
  /\ logs' = [logs EXCEPT ![s] = Append(@, [level |-> "info", message |-> ">> " \o req.method])]
  /\ IF InHandlers(req.method)
     THEN /\ reqPc' = [reqPc EXCEPT ![s] = "awaitHandler"]
          /\ handlerCalls' = [handlerCalls EXCEPT ![s] =
               Append(@, [method |-> req.method,
                          args |-> (IF IsSome(req.params) THEN Val(req.params) ELSE <<>>)
                                   \o <<"socket">>])]
          /\ UNCHANGED upstreamCalls
     ELSE /\ reqPc' = [reqPc EXCEPT ![s] = "awaitUpstream"]
          /\ upstreamCalls' = [upstreamCalls EXCEPT ![s] =
               Append(@, [method |-> req.method, params |-> req.params])]
          /\ UNCHANGED handlerCalls
  /\ UNCHANGED <<sent, escaped, awaited>>
  /\ UNCHANGED <<cfxVars, reefVars>>

\* Lines 109-171, from the await on: the awaited call returned or threw.
\* A thrown null or undefined makes `exception.code` itself throw inside the
\* catch block: the TypeError leaves the handler and nothing is sent.
Settle(s, outcome) ==
  /\ reqPc[s] \in {"awaitHandler", "awaitUpstream"}
  /\ outcome \in (IF reqPc[s] = "awaitHandler"
                  THEN HandlerOutcomes(request[s].method)
                  ELSE UpstreamOutcomes)
  /\ reqPc' = [reqPc EXCEPT ![s] = "done"]
  /\ awaited' = [awaited EXCEPT ![s] = outcome]
  /\ IF outcome.kind = "throw" /\ outcome.exc.t \in {"null", "undefined"}
     THEN /\ escaped' = [escaped EXCEPT ![s] = TRUE]
          /\ UNCHANGED <<sent, logs>>
     ELSE LET response == IF outcome.kind = "return"
                          THEN SuccessResponse(request[s], outcome.value)
                          ELSE ErrorResponse(request[s], outcome.exc)
          IN /\ sent' = [sent EXCEPT ![s] = Append(@, WireResponse(response))]
             /\ logs' = [logs EXCEPT ![s] = @ \o ResponseLogs(request[s], outcome, response)]
             /\ UNCHANGED escaped
  /\ UNCHANGED <<request, upstreamCalls, handlerCalls>>
  /\ UNCHANGED <<cfxVars, reefVars>>


(***************************************************************************)
(* The epoch-chain (Conflux) wallet wrapper, src/src/lib/conflux/wrapper.ts *)
(***************************************************************************)
MaxEpoch == 2
MaxNonce == 1

\* The requests of a backend are served one at a time.
Tasks == {1}
PairTasks == {1, 2}
Epochs == 0..MaxEpoch

\* Configuration handed to the constructor.
InterleaveEpochs == 2
DefaultGasPrice == 2
NetworkId == 1

CfxAddresses == {"cfx:a1", "cfx:a2"}

\* The wallet after the constructor added the private keys, in insertion order.
CfxWallets == {<<>>, <<"cfx:a1">>, <<"cfx:a2", "cfx:a1">>}

\* Transaction parameters of a request; numbers stand for the hex strings
\* that carry them.
TxParamsOver(addresses) ==
  {[from |-> f, to |-> r[1], value |-> r[2], data |-> r[3],
    nonce |-> n, gas |-> g, gasPrice |-> p] :
     f \in {None} \cup {Some(a) : a \in addresses},
     r \in {<<None, None, None>>, <<Some("0xto"), Some("0x1"), Some("0xdata")>>},
     n \in {None, Some(5)},
     g \in {None, Some(21000)},
     p \in {None, Some(7)}}

CfxTxParams == TxParamsOver(CfxAddresses)

NoTxParams ==
  [from |-> None, to |-> None, value |-> None, data |-> None,
   nonce |-> None, gas |-> None, gasPrice |-> None]

\* The result of a request to the chain: a value, or a failure.
RpcOk(v) == [ok |-> TRUE, v |-> v]
RpcFail == [ok |-> FALSE, v |-> 0]

\* A failure of a request to the chain, as the SDK throws it.
ThrownRpcError ==
  [t |-> "object", str |-> "", isError |-> TRUE, code |-> None, reason |-> None,
   message |-> Some("rpc failed"), data |-> None, body |-> None, error |-> None]

\* TypeError: Cannot read properties of undefined (reading 'toString')
ThrownToStringOfUndefined ==
  [t |-> "object", str |-> "", isError |-> TRUE, code |-> None, reason |-> None,
   message |-> Some("cannot read toString of undefined"), data |-> None,
   body |-> None, error |-> None]

\* throw { reason, body: { error: { code, message: reason } } }
TypedFailure(code, reason) ==
  [t |-> "object", str |-> "", isError |-> FALSE, code |-> None,
   reason |-> Some(reason), message |-> None, data |-> None,
   body |-> Some(BodyObject(DocObject(Some(ErrObj(Some(code), Some(reason), None))))),
   error |-> None]

\* Lines 226-235 (and part_000 238-247).
NoSigningKey == TypedFailure(-32000, "No private key available")
\* Lines 254-263.
GasPriceExceeded == TypedFailure(-32099, "Estimated gas price exceeds threshold")

NoPayload ==
  [from |-> None, to |-> None, gasPrice |-> None, value |-> None, data |-> None,
   nonce |-> None, epochHeight |-> None, chainId |-> None,
   storageLimit |-> None, gas |-> None]

\* The answer of conflux.getStatus(): the status, or a failure.
StatusOk(checkpoint, confirmed, epoch) ==
  [ok |-> TRUE, latestCheckpoint |-> checkpoint, latestConfirmed |-> confirmed,
   epochNumber |-> epoch]
StatusFail == [ok |-> FALSE, latestCheckpoint |-> 0, latestConfirmed |-> 0, epochNumber |-> 0]
NoStatus == StatusFail

\* What getSyncingStatus returns: false, or the three block numbers.
SyncingFalse == [kind |-> "false", startingBlock |-> 0, currentBlock |-> 0, highestBlock |-> 0]
SyncingObject(starting, current, highest) ==
  [kind |-> "object", startingBlock |-> starting, currentBlock |-> current,
   highestBlock |-> highest]
NoSyncing == [kind |-> "none", startingBlock |-> 0, currentBlock |-> 0, highestBlock |-> 0]

\* Lines 158-165: throw { reason, body: { code: -32500, message: reason } }
UnsupportedFilter ==
  [t |-> "object", str |-> "", isError |-> FALSE, code |-> None,
   reason |-> Some("Unsupported filter"), message |-> None, data |-> None,
   body |-> Some(BodyUnsupportedFilter), error |-> None]

IdleTask ==
  [op |-> "none", pc |-> "idle", params |-> NoTxParams, address |-> None,
   gasPrice |-> None, epoch |-> None, nonce |-> None,
   rpc |-> <<>>, submitted |-> None, callTx |-> None, callEpoch |-> None,
   checked |-> None, rollback |-> "unchecked", estimation |-> "none",
   oraclePrice |-> None, epochArg |-> None,
   filterId |-> "", statusRead |-> NoStatus, syncing |-> NoSyncing,
   outcome |-> NoOutcome]


\* Lines 144-148.
CfxGetAccounts == cfxWallet

\* A membership test that only asks whether the wallet holds any key.
CfxIncludesAnyKey(address) == Len(CfxGetAccounts) > 0

\* this.getAccounts().includes(address)
CfxIncludes(address) == \E i \in 1..Len(CfxGetAccounts) : CfxGetAccounts[i] = address

\* this.getAccounts()[0]
CfxFirstAccount == IF Len(CfxGetAccounts) > 0 THEN Some(CfxGetAccounts[1]) ELSE None

\* Lines 130-132: the method calls conflux.getAccount and returns nothing.
CfxGetAccount(address) == None

CfxFree(t) == cfxTask[t].pc \in {"idle", "done"}

CfxFinish(task, outcome) == [task EXCEPT !.pc = "done", !.outcome = outcome]

\* Lines 216-237.
ProcessEthSignMessage(t, address) ==
  /\ CfxFree(t)
  /\ LET task == [IdleTask EXCEPT !.op = "processEthSignMessage", !.address = Some(address)] IN
     IF CfxIncludes(address)
     THEN LET account == CfxGetAccount(address) IN
          /\ cfxTask' = [cfxTask EXCEPT ![t] =
               CfxFinish([task EXCEPT !.rpc = <<"getAccount">>],
                         Returns(IF IsSome(account) THEN Some("signature") ELSE None))]
          /\ signMessageCalls' =
               IF IsSome(account) THEN Append(signMessageCalls, address) ELSE signMessageCalls
     ELSE /\ cfxTask' = [cfxTask EXCEPT ![t] = CfxFinish(task, Throws(NoSigningKey))]
          /\ UNCHANGED signMessageCalls
  /\ UNCHANGED <<cfxWallet, estimateGasPrice, alwaysSynced, lastKnownEpochNumber, chainNonce>>
  /\ UNCHANGED <<serverVars, reefVars>>

\* Lines 272-277: `from` defaults to the first account, then the epoch is asked for.
PtxDefaultFrom(task) ==
  [task EXCEPT !.params.from = IF IsSome(@) THEN @ ELSE CfxFirstAccount,
               !.pc = "ptx_epoch",
               !.rpc = Append(@, "getEpochNumber")]

\* Lines 244-251 / 266-277: up to the first await.
ProcessTransaction(t, params) ==
  /\ CfxFree(t)
  /\ LET task == [IdleTask EXCEPT !.op = "processTransaction", !.params = params] IN
     cfxTask' = [cfxTask EXCEPT ![t] =
       IF estimateGasPrice
       THEN [task EXCEPT !.pc = "ptx_gasPrice", !.rpc = <<"getGasPrice">>]
       ELSE PtxDefaultFrom([task EXCEPT !.gasPrice =
              IF TruthyNum(params.gasPrice) THEN params.gasPrice ELSE Some(DefaultGasPrice)])]
  /\ UNCHANGED <<cfxWallet, estimateGasPrice, alwaysSynced, lastKnownEpochNumber, chainNonce, signMessageCalls>>
  /\ UNCHANGED <<serverVars, reefVars>>

\* A ceiling test that also rejects a price equal to the ceiling.
ReachesCeiling(price) == price >= DefaultGasPrice

\* Line 253: gasPriceBI > BigInt(this.conflux.defaultGasPrice.toString())
ExceedsCeiling(price) == price > DefaultGasPrice

\* Lines 250-277: the oracle answered; BigInt(`${gasPriceBI}0`) appends a
\* decimal zero to the price.
PtxGasPrice(t, r) ==
  /\ cfxTask[t].pc = "ptx_gasPrice"
  /\ cfxTask' = [cfxTask EXCEPT ![t] =
       IF ~r.ok THEN CfxFinish(@, Throws(ThrownRpcError))
       ELSE IF ExceedsCeiling(r.v)
            THEN CfxFinish([@ EXCEPT !.oraclePrice = Some(r.v)], Throws(GasPriceExceeded))
       ELSE PtxDefaultFrom([@ EXCEPT !.oraclePrice = Some(r.v), !.gasPrice = Some(r.v * 10)])]
  /\ UNCHANGED <<cfxWallet, estimateGasPrice, alwaysSynced, lastKnownEpochNumber, chainNonce, signMessageCalls>>
  /\ UNCHANGED <<serverVars, reefVars>>

\* Lines 276-280: epoch = getEpochNumber() - 1, then the next nonce is asked for.
PtxEpoch(t, r) ==
  /\ cfxTask[t].pc = "ptx_epoch"
  /\ cfxTask' = [cfxTask EXCEPT ![t] =
       IF ~r.ok THEN CfxFinish(@, Throws(ThrownRpcError))
       ELSE [@ EXCEPT !.epoch = Some(r.v - 1), !.pc = "ptx_nonce",
                      !.rpc = Append(@, "getNextNonce")]]
  /\ UNCHANGED <<cfxWallet, estimateGasPrice, alwaysSynced, lastKnownEpochNumber, chainNonce, signMessageCalls>>
  /\ UNCHANGED <<serverVars, reefVars>>

\* A chain that sets aside the nonces it has handed out to requests that
\* are still in flight.
NextNonceReserved(from) ==
  {RpcFail} \cup
  (IF IsSome(from)
   THEN {RpcOk(chainNonce[Val(from)] +
               Cardinality({u \in DOMAIN cfxTask :
                              /\ cfxTask[u].pc \in {"ptx_estimate", "ptx_send"}
                              /\ cfxTask[u].params.from = from}))}
   ELSE {})

\* The chain's answer to getNextNonce(from): the next nonce of a known
\* address, a failure otherwise (or whenever the request fails).
NextNonceAnswers(from) ==
  {RpcFail} \cup (IF IsSome(from) THEN {RpcOk(chainNonce[Val(from)])} ELSE {})

\* Options whose epochHeight follows the epoch the rollback check recorded.
PtxOptionsAtLastKnownEpoch(task) ==
  [from |-> task.params.from,
   to |-> task.params.to,
   gasPrice |-> task.gasPrice,
   value |-> IF TruthyStr(task.params.value) THEN task.params.value ELSE Some("0x0"),
   data |-> IF TruthyStr(task.params.data) THEN task.params.data ELSE Some("null"),
   nonce |-> task.nonce,
   epochHeight |-> Some(lastKnownEpochNumber - 1),
   chainId |-> Some(NetworkId)]

\* Lines 283-292.
PtxOptions(task) ==
  [from |-> task.params.from,
   to |-> task.params.to,
   gasPrice |-> task.gasPrice,
   value |-> IF TruthyStr(task.params.value) THEN task.params.value ELSE Some("0x0"),
   data |-> IF TruthyStr(task.params.data) THEN task.params.data ELSE Some("null"),
   nonce |-> task.nonce,
   epochHeight |-> task.epoch,
   chainId |-> Some(NetworkId)]

\* Lines 278-297: the nonce arrived; the options are composed and the
\* estimation is asked for.
PtxNonce(t, r) ==
  /\ cfxTask[t].pc = "ptx_nonce"
  /\ r \in NextNonceAnswers(cfxTask[t].params.from)
  /\ cfxTask' = [cfxTask EXCEPT ![t] =
       IF ~r.ok THEN CfxFinish(@, Throws(ThrownRpcError))
       ELSE [@ EXCEPT !.nonce = Some(r.v), !.pc = "ptx_estimate",
                      !.rpc = Append(@, "estimateGasAndCollateral")]]
  /\ UNCHANGED <<cfxWallet, estimateGasPrice, alwaysSynced, lastKnownEpochNumber, chainNonce, signMessageCalls>>
  /\ UNCHANGED <<serverVars, reefVars>>

\* What estimateGasAndCollateral answers when it succeeds.
EstimatedGasLimit == 30000
EstimatedStorage == 64

\* Lines 295-301: the estimation, or on failure
\* { storageCollateralized: 0, gasLimit: params.gas }.
PtxEstimation(task, r) ==
  IF r.ok THEN [storageCollateralized |-> Some(EstimatedStorage), gasLimit |-> Some(EstimatedGasLimit)]
  ELSE [storageCollateralized |-> Some(0), gasLimit |-> task.params.gas]

\* Lines 308-312.
PtxPayload(task, estimation) ==
  [from |-> PtxOptions(task).from,
   to |-> PtxOptions(task).to,
   gasPrice |-> PtxOptions(task).gasPrice,
   value |-> PtxOptions(task).value,
   data |-> PtxOptions(task).data,
   nonce |-> PtxOptions(task).nonce,
   epochHeight |-> PtxOptions(task).epochHeight,
   chainId |-> PtxOptions(task).chainId,
   storageLimit |-> estimation.storageCollateralized,
   gas |-> estimation.gasLimit]

\* Lines 294-341: the estimation answered or failed; to0x(undefined) throws
\* a TypeError; otherwise the payload goes to conflux.cfx.sendTransaction.
PtxEstimate(t, r) ==
  /\ cfxTask[t].pc = "ptx_estimate"
  /\ LET estimation == PtxEstimation(cfxTask[t], r) IN
     cfxTask' = [cfxTask EXCEPT ![t] =
       IF ~IsSome(estimation.gasLimit)
       THEN CfxFinish([@ EXCEPT !.estimation = "failed"], Throws(ThrownToStringOfUndefined))
       ELSE [@ EXCEPT !.pc = "ptx_send",
                      !.estimation = IF r.ok THEN "ok" ELSE "failed",
                      !.rpc = Append(@, "sendTransaction"),
                      !.submitted = Some(PtxPayload(cfxTask[t], estimation))]]
  /\ UNCHANGED <<cfxWallet, estimateGasPrice, alwaysSynced, lastKnownEpochNumber, chainNonce, signMessageCalls>>
  /\ UNCHANGED <<serverVars, reefVars>>

\* Line 341: conflux.cfx.sendTransaction answered with the hash or failed.
\* An accepted transaction advances the sender's next nonce on the chain.
PtxSend(t, r) ==
  /\ cfxTask[t].pc = "ptx_send"
  /\ cfxTask' = [cfxTask EXCEPT ![t] =
       CfxFinish(@, IF r.ok THEN Returns(Some("0xhash")) ELSE Throws(ThrownRpcError))]
  /\ LET from == Val(cfxTask[t].submitted).from IN
     chainNonce' = IF r.ok /\ IsSome(from) /\ chainNonce[Val(from)] < MaxNonce
                   THEN [chainNonce EXCEPT ![Val(from)] = @ + 1]
                   ELSE chainNonce
  /\ UNCHANGED <<cfxWallet, estimateGasPrice, alwaysSynced, lastKnownEpochNumber, signMessageCalls>>
  /\ UNCHANGED <<serverVars, reefVars>>


\* Lines 49-54: call() starts with checkRollbacks, which asks for the epoch
\* of the configured label (line 94).
Call(t, tx, epoch) ==
  /\ CfxFree(t)
  /\ cfxTask' = [cfxTask EXCEPT ![t] =
       [IdleTask EXCEPT !.op = "call", !.params = tx, !.epochArg = epoch,
                        !.pc = "call_check",
                        !.rpc = <<"getEpochNumber(epochLabel)">>]]
  /\ UNCHANGED <<cfxWallet, estimateGasPrice, alwaysSynced, lastKnownEpochNumber, chainNonce, signMessageCalls>>
  /\ UNCHANGED <<serverVars, reefVars>>

\* A classification that calls a rollback threatening only when it goes
\* strictly beyond the window.
RollbackClassBeyondWindow(window, epoch, lastKnown) ==
  IF epoch < lastKnown
  THEN IF epoch < lastKnown - window THEN "threatening" ELSE "harmless"
  ELSE "none"

\* Lines 95-107: how a check that reads `epoch` classifies it, for a wrapper
\* constructed with interleaveEpochs = window.
RollbackClassFor(window, epoch, lastKnown) ==
  IF epoch < lastKnown
  THEN IF epoch <= lastKnown - window THEN "threatening" ELSE "harmless"
  ELSE "none"

RollbackClass(epoch, lastKnown) == RollbackClassFor(InterleaveEpochs, epoch, lastKnown)

\* A detector that keeps the highest epoch it ever observed.
HighestEpoch(epoch, lastKnown) == IF epoch > lastKnown THEN epoch ELSE lastKnown

\* Line 108: this.lastKnownEpochNumber = epoch.
ObservedEpoch(epoch, lastKnown) == epoch

\* Lines 94-109: the epoch arrived; classify, then lastKnownEpochNumber = epoch.
CheckRollbacks(t, r) ==
  /\ cfxTask[t].pc = "call_check"
  /\ IF ~r.ok
     THEN /\ cfxTask' = [cfxTask EXCEPT ![t] = CfxFinish(@, Throws(ThrownRpcError))]
          /\ UNCHANGED lastKnownEpochNumber
     ELSE /\ cfxTask' = [cfxTask EXCEPT ![t] =
               [@ EXCEPT !.pc = "call_resume", !.checked = Some(r.v),
                         !.rollback = RollbackClass(r.v, lastKnownEpochNumber)]]
          /\ lastKnownEpochNumber' = ObservedEpoch(r.v, lastKnownEpochNumber)
  /\ UNCHANGED <<cfxWallet, estimateGasPrice, alwaysSynced, chainNonce, signMessageCalls>>
  /\ UNCHANGED <<serverVars, reefVars>>

\* A query epoch that honours the epoch the caller asked for.
CallEpochOfCaller(epochArg, lastKnown) ==
  IF IsSome(epochArg) THEN Val(epochArg) ELSE lastKnown - InterleaveEpochs

\* Lines 54-55: the parameter `epoch` is overwritten by the check's result
\* and then by lastKnownEpochNumber - interleaveEpochs.
CallEpoch(epochArg, lastKnown) == lastKnown - InterleaveEpochs

\* Lines 55-85: call() resumes after the check: the epoch of the query is
\* lastKnownEpochNumber - interleaveEpochs, `from` defaults to the first
\* account, and the query goes to conflux.call(tx, epoch).
CallResume(t) ==
  /\ cfxTask[t].pc = "call_resume"
  /\ cfxTask' = [cfxTask EXCEPT ![t] =
       [@ EXCEPT !.params.from = IF IsSome(@) THEN @ ELSE CfxFirstAccount,
                 !.callTx = Some([cfxTask[t].params EXCEPT
                                    !.from = IF IsSome(@) THEN @ ELSE CfxFirstAccount]),
                 !.callEpoch = Some(CallEpoch(cfxTask[t].epochArg, lastKnownEpochNumber)),
                 !.pc = "call_rpc",
                 !.rpc = Append(@, "call")]]
  /\ UNCHANGED <<cfxWallet, estimateGasPrice, alwaysSynced, lastKnownEpochNumber, chainNonce, signMessageCalls>>
  /\ UNCHANGED <<serverVars, reefVars>>

\* Line 85: conflux.call answered or failed.
CallAnswer(t, r) ==
  /\ cfxTask[t].pc = "call_rpc"
  /\ cfxTask' = [cfxTask EXCEPT ![t] =
       CfxFinish(@, IF r.ok THEN Returns(Some("0xbeef")) ELSE Throws(ThrownRpcError))]
  /\ UNCHANGED <<cfxWallet, estimateGasPrice, alwaysSynced, lastKnownEpochNumber, chainNonce, signMessageCalls>>
  /\ UNCHANGED <<serverVars, reefVars>>

\* A status mapping that reports the confirmed block as the highest one.
SyncingWithoutEpoch(r) ==
  IF r.ok THEN SyncingObject(r.latestCheckpoint, r.latestConfirmed, r.latestConfirmed)
  ELSE SyncingFalse

\* Lines 187-197: the status mapped to the three block numbers, or false
\* when the query failed.
SyncingOf(r) ==
  IF r.ok THEN SyncingObject(r.latestCheckpoint, r.latestConfirmed, r.epochNumber)
  ELSE SyncingFalse

\* Lines 183-188: false at once when alwaysSynced, else conflux.getStatus().
GetSyncingStatus(t) ==
  /\ CfxFree(t)
  /\ LET task == [IdleTask EXCEPT !.op = "getSyncingStatus"] IN
     cfxTask' = [cfxTask EXCEPT ![t] =
       IF alwaysSynced
       THEN CfxFinish([task EXCEPT !.syncing = SyncingFalse], Returns(Some("false")))
       ELSE [task EXCEPT !.pc = "gs_status", !.rpc = <<"getStatus">>]]
  /\ UNCHANGED <<cfxWallet, estimateGasPrice, alwaysSynced, lastKnownEpochNumber, chainNonce, signMessageCalls>>
  /\ UNCHANGED <<serverVars, reefVars>>

\* Lines 188-197: the status arrived, or the query failed and is caught.
GsAnswer(t, r) ==
  /\ cfxTask[t].pc = "gs_status"
  /\ cfxTask' = [cfxTask EXCEPT ![t] =
       CfxFinish([@ EXCEPT !.statusRead = r, !.syncing = SyncingOf(r)],
                 Returns(Some(IF r.ok THEN "status" ELSE "false")))]
  /\ UNCHANGED <<cfxWallet, estimateGasPrice, alwaysSynced, lastKnownEpochNumber, chainNonce, signMessageCalls>>
  /\ UNCHANGED <<serverVars, reefVars>>

\* Lines 115-117.
CreateEthBlockFilter(t) ==
  /\ CfxFree(t)
  /\ cfxTask' = [cfxTask EXCEPT ![t] =
       CfxFinish([IdleTask EXCEPT !.op = "createEthBlockFilter"], Returns(Some("0x1")))]
  /\ UNCHANGED <<cfxWallet, estimateGasPrice, alwaysSynced, lastKnownEpochNumber, chainNonce, signMessageCalls>>
  /\ UNCHANGED <<serverVars, reefVars>>

\* Lines 153-166: the epoch is asked for when id is '0x1'; any other id is
\* refused.
GetEthFilterChanges(t, id) ==
  /\ CfxFree(t)
  /\ LET task == [IdleTask EXCEPT !.op = "getEthFilterChanges", !.filterId = id] IN
     cfxTask' = [cfxTask EXCEPT ![t] =
       IF id = "0x1"
       THEN [task EXCEPT !.pc = "fc_epoch", !.rpc = <<"getEpochNumber(latest_state)">>]
       ELSE CfxFinish(task, Throws(UnsupportedFilter))]
  /\ UNCHANGED <<cfxWallet, estimateGasPrice, alwaysSynced, lastKnownEpochNumber, chainNonce, signMessageCalls>>
  /\ UNCHANGED <<serverVars, reefVars>>

\* Line 156: the epoch number is returned as it arrives.
FcAnswer(t, r) ==
  /\ cfxTask[t].pc = "fc_epoch"
  /\ cfxTask' = [cfxTask EXCEPT ![t] =
       CfxFinish(@, IF r.ok THEN Returns(Some(ToString(r.v))) ELSE Throws(ThrownRpcError))]
  /\ UNCHANGED <<cfxWallet, estimateGasPrice, alwaysSynced, lastKnownEpochNumber, chainNonce, signMessageCalls>>
  /\ UNCHANGED <<serverVars, reefVars>>

\* Line 123: estimateGas hands params to conflux.estimateGasAndCollateral.
CfxEstimateGas(t, params) ==
  /\ CfxFree(t)
  /\ cfxTask' = [cfxTask EXCEPT ![t] =
       [IdleTask EXCEPT !.op = "estimateGas", !.params = params, !.pc = "ceg_rpc",
                        !.rpc = <<"estimateGasAndCollateral">>]]
  /\ UNCHANGED <<cfxWallet, estimateGasPrice, alwaysSynced, lastKnownEpochNumber, chainNonce, signMessageCalls>>
  /\ UNCHANGED <<serverVars, reefVars>>

\* Line 124: '0x' + res.gasLimit.toString(16)
CegAnswer(t, r) ==
  /\ cfxTask[t].pc = "ceg_rpc"
  /\ cfxTask' = [cfxTask EXCEPT ![t] =
       CfxFinish(@, IF r.ok THEN Returns(Some("0x7530")) ELSE Throws(ThrownRpcError))]
  /\ UNCHANGED <<cfxWallet, estimateGasPrice, alwaysSynced, lastKnownEpochNumber, chainNonce, signMessageCalls>>
  /\ UNCHANGED <<serverVars, reefVars>>

\* The answers of the chain: the gas price oracle, the epoch, a bare success.
GasPriceAnswers == {RpcFail} \cup {RpcOk(v) : v \in 1..(DefaultGasPrice + 1)}
EpochAnswers == {RpcFail} \cup {RpcOk(v) : v \in Epochs}
PlainAnswers == {RpcFail, RpcOk(0)}
\* The epoch argument of call(): none, or an epoch number.
CallEpochArgs == {None, Some(MaxEpoch)}
\* The transaction of a call(): a query, which carries no nonce.
CallTxParams == {tx \in CfxTxParams : tx.nonce = None /\ tx.gas = None /\ tx.gasPrice = None}

NextConflux ==
  \E t \in Tasks :
    \/ \E a \in CfxAddresses : ProcessEthSignMessage(t, a)
    \/ \E params \in CfxTxParams : ProcessTransaction(t, params)
    \/ \E r \in GasPriceAnswers : PtxGasPrice(t, r)
    \/ \E r \in EpochAnswers : PtxEpoch(t, r)
    \/ \E r \in {RpcFail} \cup {RpcOk(n) : n \in 0..MaxNonce} : PtxNonce(t, r)
    \/ \E r \in PlainAnswers : PtxEstimate(t, r)
    \/ \E r \in PlainAnswers : PtxSend(t, r)
    \/ \E tx \in CallTxParams, epoch \in CallEpochArgs : Call(t, tx, epoch)
    \/ \E r \in EpochAnswers : CheckRollbacks(t, r)
    \/ CallResume(t)
    \/ \E r \in PlainAnswers : CallAnswer(t, r)

\* Two requests in flight at once: transactions of one sender that carry no
\* nonce, gas or gas price, and calls without an epoch argument.
PairTxParams ==
  {tx \in CfxTxParams : /\ tx.from = Some("cfx:a1") /\ IsSome(tx.to)
                        /\ tx.nonce = None /\ tx.gas = None /\ tx.gasPrice = None}

NextConfluxPair ==
  \E t \in PairTasks :
    \/ \E params \in PairTxParams : ProcessTransaction(t, params)
    \/ \E r \in EpochAnswers : PtxEpoch(t, r)
    \/ \E r \in {RpcFail} \cup {RpcOk(n) : n \in 0..(MaxNonce + 1)} : PtxNonce(t, r)
    \/ \E r \in PlainAnswers : PtxEstimate(t, r)
    \/ \E r \in PlainAnswers : PtxSend(t, r)
    \/ \E tx \in PairTxParams : Call(t, tx, None)
    \/ \E r \in EpochAnswers : CheckRollbacks(t, r)
    \/ CallResume(t)
    \/ \E r \in PlainAnswers : CallAnswer(t, r)

\* The answers of conflux.getStatus() and the ids a client polls with.
StatusAnswers == {StatusFail, StatusOk(1, 2, 3)}
FilterIds == {"0x1", "0x2"}

\* The operations that answer without composing a transaction.
NextConfluxMocks ==
  \E t \in Tasks :
    \/ GetSyncingStatus(t)
    \/ \E r \in StatusAnswers : GsAnswer(t, r)
    \/ CreateEthBlockFilter(t)
    \/ \E id \in FilterIds : GetEthFilterChanges(t, id)
    \/ \E r \in EpochAnswers : FcAnswer(t, r)
    \/ \E params \in CfxTxParams : CfxEstimateGas(t, params)
    \/ \E r \in PlainAnswers : CegAnswer(t, r)

(***************************************************************************)
(* The claim-chain (Reef) wallet wrapper, src/unnamed/part_000.            *)
(***************************************************************************)
\* Configuration handed to the constructor.
NumAddresses == 2
SeedPhrase == "seed phrase"

Identities == 0..(NumAddresses - 1)

\* The EVM address signer.getAddress() answers for the identity derived at
\* index j, in checksum case.
EvmAddress(j) == IF j = 0 THEN "0xAB1" ELSE IF j = 1 THEN "0xCD2" ELSE "0xEF3"

\* String.prototype.toLowerCase on the addresses of the model.
ToLowerCase(a) ==
  CASE a = "0xAB1" -> "0xab1"
    [] a = "0xCD2" -> "0xcd2"
    [] a = "0xEF3" -> "0xef3"
    [] OTHER -> a

\* The `from` values requests carry: the first address in lower case, the
\* second as the signer spells it, and an address no signer has.
ReefFromAddresses == {"0xab1", "0xCD2", "0x999"}

ReefTxParams == TxParamsOver(ReefFromAddresses)

\* ethers.providers.TransactionRequest, as composeTransaction fills it.
NoTx ==
  [from |-> None, to |-> None, value |-> None, data |-> None,
   nonce |-> None, gasLimit |-> None, gasPrice |-> None]

IdleReefTask ==
  [op |-> "none", pc |-> "idle", params |-> NoTxParams, tx |-> NoTx,
   composed |-> FALSE, firstAccount |-> None,
   signer |-> 0, submitted |-> None, estimated |-> None, filterId |-> "",
   outcome |-> NoOutcome]


\* Lines 63-64: setup() waits for the API.
SetupStart ==
  /\ setupPc = "constructed"
  /\ setupPc' = "isReady"
  /\ UNCHANGED <<reefAccounts, reefSigners, keyringPairs, signingKeyPairs, seedPhrase,
                 setupJ, claimed, claimsIssued, reefNonce, reefTask>>
  /\ UNCHANGED <<serverVars, cfxVars>>

\* An end of setup that adds the pairs and leaves the seed phrase in place.
SetupFinishKeepingSeed ==
  /\ seedPhrase' = seedPhrase
  /\ signingKeyPairs' = keyringPairs'
  /\ setupPc' = "ready"

\* An identity is never claimed by setup.
NeverClaims(j) == FALSE

\* Line 75: if (!(await signer.isClaimed()))
NeedsClaim(j) == ~claimed[j]

\* Lines 86-87: after the loop the seed phrase is erased and the pairs are
\* added to the signing key.
SetupFinish ==
  /\ seedPhrase' = ""
  /\ signingKeyPairs' = keyringPairs'
  /\ setupPc' = "ready"

\* Lines 65-75: the API is ready (or the wait failed: setup() throws); the
\* loop starts with the first identity's isClaimed.
SetupReady(r) ==
  /\ setupPc = "isReady"
  /\ IF ~r.ok
     THEN /\ setupPc' = "failed"
          /\ UNCHANGED <<keyringPairs, signingKeyPairs, seedPhrase>>
     ELSE IF 0 < NumAddresses
          THEN /\ setupPc' = "isClaimed"
               /\ UNCHANGED <<keyringPairs, signingKeyPairs, seedPhrase>>
          ELSE /\ UNCHANGED keyringPairs
               /\ SetupFinish
  /\ UNCHANGED <<reefAccounts, reefSigners, setupJ, claimed, claimsIssued, reefNonce, reefTask>>
  /\ UNCHANGED <<serverVars, cfxVars>>

\* Lines 75-82: isClaimed answered; an unclaimed identity is claimed first.
SetupIsClaimed(r) ==
  /\ setupPc = "isClaimed"
  /\ IF ~r.ok
     THEN /\ setupPc' = "failed"
          /\ UNCHANGED claimsIssued
     ELSE IF NeedsClaim(setupJ)
          THEN /\ setupPc' = "claim"
               /\ claimsIssued' = Append(claimsIssued, setupJ)
          ELSE /\ setupPc' = "getAddress"
               /\ UNCHANGED claimsIssued
  /\ UNCHANGED <<reefAccounts, reefSigners, keyringPairs, signingKeyPairs, seedPhrase,
                 setupJ, claimed, reefNonce, reefTask>>
  /\ UNCHANGED <<serverVars, cfxVars>>

\* Lines 79-80: claimDefaultAccount completed or failed; its address is
\* asked for, to be printed.
SetupClaim(r) ==
  /\ setupPc = "claim"
  /\ IF ~r.ok
     THEN /\ setupPc' = "failed"
          /\ UNCHANGED claimed
     ELSE /\ setupPc' = "printAddress"
          /\ claimed' = [claimed EXCEPT ![setupJ] = TRUE]
  /\ UNCHANGED <<reefAccounts, reefSigners, keyringPairs, signingKeyPairs, seedPhrase,
                 setupJ, claimsIssued, reefNonce, reefTask>>
  /\ UNCHANGED <<serverVars, cfxVars>>

\* Lines 80-82: the printed address arrived; the address is asked for again.
SetupPrintAddress(r) ==
  /\ setupPc = "printAddress"
  /\ setupPc' = IF r.ok THEN "getAddress" ELSE "failed"
  /\ UNCHANGED <<reefAccounts, reefSigners, keyringPairs, signingKeyPairs, seedPhrase,
                 setupJ, claimed, claimsIssued, reefNonce, reefTask>>
  /\ UNCHANGED <<serverVars, cfxVars>>

\* Lines 82-87 and 67-75: the address arrived and is pushed with its signer
\* and pair; the loop goes on with the next identity or ends.
SetupGetAddress(r) ==
  /\ setupPc = "getAddress"
  /\ IF ~r.ok
     THEN /\ setupPc' = "failed"
          /\ UNCHANGED <<reefAccounts, reefSigners, keyringPairs, signingKeyPairs,
                         seedPhrase, setupJ>>
     ELSE /\ reefAccounts' = Append(reefAccounts, EvmAddress(setupJ))
          /\ reefSigners' = Append(reefSigners, setupJ)
          /\ keyringPairs' = Append(keyringPairs, setupJ)
          /\ setupJ' = setupJ + 1
          /\ IF setupJ + 1 < NumAddresses
             THEN /\ setupPc' = "isClaimed"
                  /\ UNCHANGED <<signingKeyPairs, seedPhrase>>
             ELSE SetupFinish
  /\ UNCHANGED <<claimed, claimsIssued, reefNonce, reefTask>>
  /\ UNCHANGED <<serverVars, cfxVars>>

\* Lines 226-228.
ReefGetAccounts == reefAccounts

\* accounts[0]
ReefFirstAccount == IF Len(ReefGetAccounts) > 0 THEN Some(ReefGetAccounts[1]) ELSE None

\* Lines 139-173.
ComposeTransaction(params) ==
  [from |-> params.from,
   to |-> params.to,
   value |-> params.value,
   data |-> params.data,
   nonce |-> params.nonce,
   gasLimit |-> params.gas,
   gasPrice |-> params.gasPrice]

\* Lines 230-237: the index of the first signer whose address equals
\* evmAddress, case ignored; 0 when there is none.
SignerIndexFromEvmAddress(evmAddress) ==
  LET hits == {i \in 1..Len(reefSigners) :
                 ToLowerCase(EvmAddress(reefSigners[i])) = ToLowerCase(evmAddress)}
  IN IF hits = {} THEN 0 ELSE CHOOSE i \in hits : \A k \in hits : i <= k

\* A task takes a new request once setup() has completed.
ReefFree(t) == setupPc = "ready" /\ reefTask[t].pc \in {"idle", "done"}

ReefFinish(task, outcome) == [task EXCEPT !.pc = "done", !.outcome = outcome]

\* Lines 553-554: sendTransaction waits for the API.
SendTransaction(t, params) ==
  /\ ReefFree(t)
  /\ reefTask' = [reefTask EXCEPT ![t] =
       [IdleReefTask EXCEPT !.op = "sendTransaction", !.params = params, !.pc = "stx_api"]]
  /\ UNCHANGED <<reefWallet, reefNonce>>
  /\ UNCHANGED <<serverVars, cfxVars>>

\* Lines 555-559 and 230-233: the transaction is composed and the signer
\* of tx.from || '' is looked for; with no signer at all the lookup throws
\* at once.
StxApi(t, r) ==
  /\ reefTask[t].pc = "stx_api"
  /\ LET composed == [reefTask[t] EXCEPT !.tx = ComposeTransaction(reefTask[t].params),
                                         !.composed = TRUE,
                                         !.firstAccount = ReefFirstAccount] IN
     reefTask' = [reefTask EXCEPT ![t] =
       IF ~r.ok THEN ReefFinish(@, Throws(ThrownRpcError))
       ELSE IF Len(reefSigners) = 0
            THEN ReefFinish(composed, Throws(NoSigningKey))
            ELSE [composed EXCEPT !.pc = "stx_lookup"]]
  /\ UNCHANGED <<reefWallet, reefNonce>>
  /\ UNCHANGED <<serverVars, cfxVars>>

\* Lines 231-247 and 559-561: the signers' addresses arrived; the signer is
\* found, or NoSigningKey is thrown; then the signer's address is asked for.
StxLookup(t, r) ==
  /\ reefTask[t].pc = "stx_lookup"
  /\ LET from == reefTask[t].tx.from
         i == SignerIndexFromEvmAddress(IF TruthyStr(from) THEN Val(from) ELSE "")
     IN reefTask' = [reefTask EXCEPT ![t] =
          IF ~r.ok THEN ReefFinish(@, Throws(ThrownRpcError))
          ELSE IF i = 0 THEN ReefFinish(@, Throws(NoSigningKey))
          ELSE [@ EXCEPT !.signer = i, !.pc = "stx_from"]]
  /\ UNCHANGED <<reefWallet, reefNonce>>
  /\ UNCHANGED <<serverVars, cfxVars>>

\* signer.sendTransaction(tx) is called.
StxSubmit(task) == [task EXCEPT !.pc = "stx_send", !.submitted = Some(task.tx)]

\* Lines 561-570: tx.from becomes the signer's address; a missing nonce is
\* asked for, otherwise the transaction is submitted.
StxFrom(t, r) ==
  /\ reefTask[t].pc = "stx_from"
  /\ reefTask' = [reefTask EXCEPT ![t] =
       IF ~r.ok THEN ReefFinish(@, Throws(ThrownRpcError))
       ELSE LET task == [reefTask[t] EXCEPT
                           !.tx.from = Some(EvmAddress(reefSigners[reefTask[t].signer]))] IN
            IF ~TruthyNum(task.tx.nonce)
            THEN [task EXCEPT !.pc = "stx_nonce"]
            ELSE StxSubmit(task)]
  /\ UNCHANGED <<reefWallet, reefNonce>>
  /\ UNCHANGED <<serverVars, cfxVars>>

\* Lines 565-570: the transaction count arrived; the transaction is submitted.
StxNonce(t, r) ==
  /\ reefTask[t].pc = "stx_nonce"
  /\ r \in {RpcFail, RpcOk(reefNonce[reefSigners[reefTask[t].signer]])}
  /\ reefTask' = [reefTask EXCEPT ![t] =
       IF ~r.ok THEN ReefFinish(@, Throws(ThrownRpcError))
       ELSE StxSubmit([@ EXCEPT !.tx.nonce = Some(r.v)])]
  /\ UNCHANGED <<reefWallet, reefNonce>>
  /\ UNCHANGED <<serverVars, cfxVars>>

\* Lines 570-572: signer.sendTransaction answered with the hash or failed.
StxSend(t, r) ==
  /\ reefTask[t].pc = "stx_send"
  /\ reefTask' = [reefTask EXCEPT ![t] =
       ReefFinish(@, IF r.ok THEN Returns(Some("0xhash")) ELSE Throws(ThrownRpcError))]
  /\ LET j == reefSigners[reefTask[t].signer] IN
     reefNonce' = IF r.ok /\ reefNonce[j] < MaxNonce
                  THEN [reefNonce EXCEPT ![j] = @ + 1]
                  ELSE reefNonce
  /\ UNCHANGED reefWallet
  /\ UNCHANGED <<serverVars, cfxVars>>

\* An estimateGas that takes the first account out of the array
\* (accounts.shift()).
AccountsAfterShift(accounts) == IF accounts = <<>> THEN accounts ELSE Tail(accounts)

\* Lines 181-182: `accounts` is this.accounts itself (getAccounts returns the
\* array, not a copy); accounts[0] is read and the array is left as it is.
AccountsAfterRead(accounts) == accounts

\* Lines 175-184: estimateGas composes, defaults `from` to accounts[0] and
\* asks the provider.
EstimateGas(t, params) ==
  /\ ReefFree(t)
  /\ LET tx == [ComposeTransaction(params) EXCEPT
                  !.from = IF TruthyStr(@) THEN @ ELSE ReefFirstAccount]
     IN reefTask' = [reefTask EXCEPT ![t] =
          [IdleReefTask EXCEPT !.op = "estimateGas", !.params = params, !.tx = tx,
                               !.composed = TRUE, !.firstAccount = ReefFirstAccount,
                               !.estimated = Some(tx), !.pc = "eg_rpc"]]
  /\ reefAccounts' = IF TruthyStr(params.from) THEN reefAccounts
                     ELSE AccountsAfterRead(reefAccounts)
  /\ UNCHANGED <<reefSigners, keyringPairs, signingKeyPairs, seedPhrase,
                 setupPc, setupJ, claimed, claimsIssued, reefNonce>>
  /\ UNCHANGED <<serverVars, cfxVars>>

\* Lines 184-185.
EgAnswer(t, r) ==
  /\ reefTask[t].pc = "eg_rpc"
  /\ reefTask' = [reefTask EXCEPT ![t] =
       ReefFinish(@, IF r.ok THEN Returns(Some("0x5208")) ELSE Throws(ThrownRpcError))]
  /\ UNCHANGED <<reefWallet, reefNonce>>
  /\ UNCHANGED <<serverVars, cfxVars>>

\* Lines 522-524: getSyncingStatus returns false.
ReefGetSyncingStatus(t) ==
  /\ ReefFree(t)
  /\ reefTask' = [reefTask EXCEPT ![t] =
       ReefFinish([IdleReefTask EXCEPT !.op = "getSyncingStatus"], Returns(Some("false")))]
  /\ UNCHANGED <<reefWallet, reefNonce>>
  /\ UNCHANGED <<serverVars, cfxVars>>

\* Lines 536-538.
MockCreateBlockFilter(t) ==
  /\ ReefFree(t)
  /\ reefTask' = [reefTask EXCEPT ![t] =
       ReefFinish([IdleReefTask EXCEPT !.op = "mockCreateBlockFilter"], Returns(Some("0x1")))]
  /\ UNCHANGED <<reefWallet, reefNonce>>
  /\ UNCHANGED <<serverVars, cfxVars>>

\* Lines 543-545: the id is logged, then the block number is asked for.
MockGetFilterChanges(t, id) ==
  /\ ReefFree(t)
  /\ reefTask' = [reefTask EXCEPT ![t] =
       [IdleReefTask EXCEPT !.op = "mockGetFilterChanges", !.filterId = id, !.pc = "fc_block"]]
  /\ UNCHANGED <<reefWallet, reefNonce>>
  /\ UNCHANGED <<serverVars, cfxVars>>

\* Line 545: return [await this.provider.getBlockNumber()]
MfcAnswer(t, r) ==
  /\ reefTask[t].pc = "fc_block"
  /\ reefTask' = [reefTask EXCEPT ![t] =
       ReefFinish(@, IF r.ok THEN Returns(Some("[" \o ToString(r.v) \o "]"))
                     ELSE Throws(ThrownRpcError))]
  /\ UNCHANGED <<reefWallet, reefNonce>>
  /\ UNCHANGED <<serverVars, cfxVars>>

\* The answers of provider.getBlockNumber().
BlockNumberAnswers == {RpcFail, RpcOk(7)}

NextReef ==
  \/ SetupStart
  \/ \E r \in PlainAnswers : SetupReady(r)
  \/ \E r \in PlainAnswers : SetupIsClaimed(r)
  \/ \E r \in PlainAnswers : SetupClaim(r)
  \/ \E r \in PlainAnswers : SetupPrintAddress(r)
  \/ \E r \in PlainAnswers : SetupGetAddress(r)
  \/ \E t \in Tasks :
       \/ \E params \in ReefTxParams : SendTransaction(t, params)
       \/ \E r \in PlainAnswers : StxApi(t, r)
       \/ \E r \in PlainAnswers : StxLookup(t, r)
       \/ \E r \in PlainAnswers : StxFrom(t, r)
       \/ \E r \in {RpcFail} \cup {RpcOk(n) : n \in 0..MaxNonce} : StxNonce(t, r)
       \/ \E r \in PlainAnswers : StxSend(t, r)
       \/ \E params \in ReefTxParams : EstimateGas(t, params)
       \/ \E r \in PlainAnswers : EgAnswer(t, r)
       \/ ReefGetSyncingStatus(t)
       \/ MockCreateBlockFilter(t)
       \/ \E id \in FilterIds : MockGetFilterChanges(t, id)
       \/ \E r \in BlockNumberAnswers : MfcAnswer(t, r)

(***************************************************************************)
(* Specifications: one per component.                                      *)
(***************************************************************************)

NextServer == \E s \in Slots : \/ \E req \in Requests : Post(s, req)
                               \/ \E outcome \in Outcomes \cup {Throws(ThrownTypeError)} :
                                    Settle(s, outcome)

\* Two requests in flight together: each invocation of the async handler
\* has its own request, header and response, and the two interleave at the
\* await of lines 99-107.
PairRequests ==
  {req \in Requests : req.params = None /\ req.method \in {"eth_accounts", "eth_call"}}

ThrownWithHtmlBody ==
  [ThrownPrimitive("object", "") EXCEPT !.code = Some(-32000), !.body = Some(BodyHtmlText)]

PairOutcomes == {Returns(Some("0xbeef")), Throws(ThrownString), Throws(ThrownWithHtmlBody)}

NextServerPair == \E s \in PairSlots : \/ \E req \in PairRequests : Post(s, req)
                                       \/ \E outcome \in PairOutcomes : Settle(s, outcome)

\* The state after construction: the dispatcher has no request (server.ts
\* 16-52); the other components are constructed and stay as they are.
InitServer ==
  /\ reqPc = [s \in PairSlots |-> "idle"]
  /\ request = [s \in PairSlots |-> NoRequest]
  /\ sent = [s \in PairSlots |-> <<>>]
  /\ escaped = [s \in PairSlots |-> FALSE]
  /\ upstreamCalls = [s \in PairSlots |-> <<>>]
  /\ handlerCalls = [s \in PairSlots |-> <<>>]
  /\ awaited = [s \in PairSlots |-> NoOutcome]
  /\ logs = [s \in PairSlots |-> <<>>]
  /\ cfxWallet = <<>>
  /\ estimateGasPrice = FALSE
  /\ alwaysSynced = FALSE
  /\ lastKnownEpochNumber = 0
  /\ chainNonce = [a \in CfxAddresses |-> 0]
  /\ cfxTask = [t \in PairTasks |-> IdleTask]
  /\ signMessageCalls = <<>>
  /\ reefAccounts = <<>>
  /\ reefSigners = <<>>
  /\ keyringPairs = <<>>
  /\ signingKeyPairs = <<>>
  /\ seedPhrase = SeedPhrase
  /\ setupPc = "constructed"
  /\ setupJ = 0
  /\ claimed = [j \in Identities |-> FALSE]
  /\ claimsIssued = <<>>
  /\ reefNonce = [j \in Identities |-> 0]
  /\ reefTask = [t \in Tasks |-> IdleReefTask]

\* The state after the epoch-chain wrapper's constructor (wrapper.ts 20-41),
\* for each wallet and each setting of estimateGasPrice.
InitConflux ==
  /\ reqPc = [s \in PairSlots |-> "idle"]
  /\ request = [s \in PairSlots |-> NoRequest]
  /\ sent = [s \in PairSlots |-> <<>>]
  /\ escaped = [s \in PairSlots |-> FALSE]
  /\ upstreamCalls = [s \in PairSlots |-> <<>>]
  /\ handlerCalls = [s \in PairSlots |-> <<>>]
  /\ awaited = [s \in PairSlots |-> NoOutcome]
  /\ logs = [s \in PairSlots |-> <<>>]
  /\ cfxWallet \in CfxWallets
  /\ estimateGasPrice \in BOOLEAN
  /\ alwaysSynced = FALSE
  /\ lastKnownEpochNumber = 0
  /\ chainNonce = [a \in CfxAddresses |-> 0]
  /\ cfxTask = [t \in PairTasks |-> IdleTask]
  /\ signMessageCalls = <<>>
  /\ reefAccounts = <<>>
  /\ reefSigners = <<>>
  /\ keyringPairs = <<>>
  /\ signingKeyPairs = <<>>
  /\ seedPhrase = SeedPhrase
  /\ setupPc = "constructed"
  /\ setupJ = 0
  /\ claimed = [j \in Identities |-> FALSE]
  /\ claimsIssued = <<>>
  /\ reefNonce = [j \in Identities |-> 0]
  /\ reefTask = [t \in Tasks |-> IdleReefTask]

\* The state after the ledger wrapper's constructor, for each wallet and
\* each setting of alwaysSynced.
InitConfluxMocks ==
  /\ reqPc = [s \in PairSlots |-> "idle"]
  /\ request = [s \in PairSlots |-> NoRequest]
  /\ sent = [s \in PairSlots |-> <<>>]
  /\ escaped = [s \in PairSlots |-> FALSE]
  /\ upstreamCalls = [s \in PairSlots |-> <<>>]
  /\ handlerCalls = [s \in PairSlots |-> <<>>]
  /\ awaited = [s \in PairSlots |-> NoOutcome]
  /\ logs = [s \in PairSlots |-> <<>>]
  /\ cfxWallet \in CfxWallets
  /\ estimateGasPrice = FALSE
  /\ alwaysSynced \in BOOLEAN
  /\ lastKnownEpochNumber = 0
  /\ chainNonce = [a \in CfxAddresses |-> 0]
  /\ cfxTask = [t \in PairTasks |-> IdleTask]
  /\ signMessageCalls = <<>>
  /\ reefAccounts = <<>>
  /\ reefSigners = <<>>
  /\ keyringPairs = <<>>
  /\ signingKeyPairs = <<>>
  /\ seedPhrase = SeedPhrase
  /\ setupPc = "constructed"
  /\ setupJ = 0
  /\ claimed = [j \in Identities |-> FALSE]
  /\ claimsIssued = <<>>
  /\ reefNonce = [j \in Identities |-> 0]
  /\ reefTask = [t \in Tasks |-> IdleReefTask]

\* The state after the ledger wrapper's constructor with one private key and
\* the gas price not estimated.
InitConfluxPair ==
  /\ reqPc = [s \in PairSlots |-> "idle"]
  /\ request = [s \in PairSlots |-> NoRequest]
  /\ sent = [s \in PairSlots |-> <<>>]
  /\ escaped = [s \in PairSlots |-> FALSE]
  /\ upstreamCalls = [s \in PairSlots |-> <<>>]
  /\ handlerCalls = [s \in PairSlots |-> <<>>]
  /\ awaited = [s \in PairSlots |-> NoOutcome]
  /\ logs = [s \in PairSlots |-> <<>>]
  /\ cfxWallet = <<"cfx:a1">>
  /\ estimateGasPrice = FALSE
  /\ alwaysSynced = FALSE
  /\ lastKnownEpochNumber = 0
  /\ chainNonce = [a \in CfxAddresses |-> 0]
  /\ cfxTask = [t \in PairTasks |-> IdleTask]
  /\ signMessageCalls = <<>>
  /\ reefAccounts = <<>>
  /\ reefSigners = <<>>
  /\ keyringPairs = <<>>
  /\ signingKeyPairs = <<>>
  /\ seedPhrase = SeedPhrase
  /\ setupPc = "constructed"
  /\ setupJ = 0
  /\ claimed = [j \in Identities |-> FALSE]
  /\ claimsIssued = <<>>
  /\ reefNonce = [j \in Identities |-> 0]
  /\ reefTask = [t \in Tasks |-> IdleReefTask]

\* The state after the claim-chain wrapper's constructor (part_000 44-61),
\* for each set of identities already claimed on the chain.
InitReef ==
  /\ reqPc = [s \in PairSlots |-> "idle"]
  /\ request = [s \in PairSlots |-> NoRequest]
  /\ sent = [s \in PairSlots |-> <<>>]
  /\ escaped = [s \in PairSlots |-> FALSE]
  /\ upstreamCalls = [s \in PairSlots |-> <<>>]
  /\ handlerCalls = [s \in PairSlots |-> <<>>]
  /\ awaited = [s \in PairSlots |-> NoOutcome]
  /\ logs = [s \in PairSlots |-> <<>>]
  /\ cfxWallet = <<>>
  /\ estimateGasPrice = FALSE
  /\ alwaysSynced = FALSE
  /\ lastKnownEpochNumber = 0
  /\ chainNonce = [a \in CfxAddresses |-> 0]
  /\ cfxTask = [t \in PairTasks |-> IdleTask]
  /\ signMessageCalls = <<>>
  /\ reefAccounts = <<>>
  /\ reefSigners = <<>>
  /\ keyringPairs = <<>>
  /\ signingKeyPairs = <<>>
  /\ seedPhrase = SeedPhrase
  /\ setupPc = "constructed"
  /\ setupJ = 0
  /\ claimed \in [Identities -> BOOLEAN]
  /\ claimsIssued = <<>>
  /\ reefNonce = [j \in Identities |-> 0]
  /\ reefTask = [t \in Tasks |-> IdleReefTask]

SpecServer == InitServer /\ [][NextServer]_vars

SpecServerPair == InitServer /\ [][NextServerPair]_vars

SpecConflux == InitConflux /\ [][NextConflux]_vars

SpecConfluxPair == InitConfluxPair /\ [][NextConfluxPair]_vars

SpecConfluxMocks == InitConfluxMocks /\ [][NextConfluxMocks]_vars

SpecReef == InitReef /\ [][NextReef]_vars


(***************************************************************************)
(* Properties of the dispatcher (SpecServer).                              *)
(***************************************************************************)
\* C1: every response that is sent carries exactly one of `result` and
\* `error`: never both, never neither.
C1_ExactlyOneOfResultAndError ==
  \A s \in Slots : \A i \in 1..Len(sent[s]) :
    sent[s][i].hasResult # sent[s][i].hasError

\* C2: whatever the awaited call returns or throws, the handler ends having
\* sent exactly one response, with status 200, and no exception leaves it.
C2_AlwaysOneResponseWithStatus200 ==
  \A s \in Slots :
    reqPc[s] = "done" =>
      /\ ~escaped[s]
      /\ Len(sent[s]) = 1
      /\ sent[s][1].status = 200

\* C3: a request for an intercepted method is served by the bound handler,
\* called once with that method; provider.send is never called for it,
\* whether the handler returns or throws, and a returned value is the result.
C3_InterceptedNeverForwarded ==
  \A s \in Slots :
    (reqPc[s] # "idle" /\ request[s].method \in HandlerKeys) =>
      /\ reqPc[s] # "awaitUpstream"
      /\ upstreamCalls[s] = <<>>
      /\ Len(handlerCalls[s]) = 1
      /\ handlerCalls[s][1].method = request[s].method
      /\ (reqPc[s] = "done" /\ awaited[s].kind = "return") =>
           /\ Len(sent[s]) = 1
           /\ sent[s][1].result = awaited[s].value
           /\ ~sent[s][1].hasError

\* C3 witness: an eth_sendTransaction request whose handler threw was
\* answered with an error.
C3_Witness ==
  \E s \in Slots :
    /\ reqPc[s] = "done"
    /\ request[s].method = "eth_sendTransaction"
    /\ awaited[s].kind = "throw"
    /\ Len(sent[s]) = 1
    /\ sent[s][1].hasError

\* C4: a request for any method that is not one of the intercepted methods
\* is forwarded to provider.send with exactly its method and params, and the
\* result of the response is the value the upstream returned.
C4_OthersForwardedVerbatim ==
  \A s \in Slots :
    (reqPc[s] # "idle" /\ request[s].method \notin HandlerKeys) =>
      /\ upstreamCalls[s] =
           <<[method |-> request[s].method, params |-> request[s].params]>>
      /\ handlerCalls[s] = <<>>
      /\ (reqPc[s] = "done" /\ awaited[s].kind = "return") =>
           /\ Len(sent[s]) = 1
           /\ sent[s][1].result = awaited[s].value

(***************************************************************************)
(* Properties of the epoch-chain wrapper (SpecConflux).                    *)
(***************************************************************************)
\* body.error.code of a thrown typed failure; 0 when it has none.
TypedCode(e) ==
  IF IsSome(e.body) /\ IsSome(Val(e.body).doc.error) /\ IsSome(Val(Val(e.body).doc.error).code)
  THEN Val(Val(Val(e.body).doc.error).code)
  ELSE 0

\* Whether `from` names a key the wallet holds.
CfxHoldsKey(from) == IsSome(from) /\ \E i \in 1..Len(cfxWallet) : cfxWallet[i] = Val(from)

\* C5: signing for an address that is not in getAccounts() fails with
\* NoSigningKey (code -32000) and no account's signMessage is invoked.
C5_UnknownSignerFails ==
  \A t \in Tasks :
    LET task == cfxTask[t] IN
    (task.op = "processEthSignMessage" /\ task.pc = "done"
       /\ ~CfxHoldsKey(task.address)) =>
      /\ task.outcome.kind = "throw"
      /\ task.outcome.exc = NoSigningKey
      /\ TypedCode(task.outcome.exc) = -32000
      /\ signMessageCalls = <<>>

\* C5 witness: a wallet that holds a key was asked to sign for another
\* address and refused.
C5_Witness ==
  \E t \in Tasks :
    /\ cfxWallet = <<"cfx:a1">>
    /\ cfxTask[t].op = "processEthSignMessage"
    /\ cfxTask[t].address = Some("cfx:a2")
    /\ cfxTask[t].pc = "done"
    /\ cfxTask[t].outcome.kind = "throw"

\* C6: a transaction whose `from` (supplied or defaulted) names no key the
\* wallet holds never reaches conflux.cfx.sendTransaction.
C6_NoKeyNeverSubmitted ==
  \A t \in Tasks :
    LET task == cfxTask[t] IN
    (task.op = "processTransaction"
       /\ task.pc \in {"ptx_epoch", "ptx_nonce", "ptx_estimate", "ptx_send"}
       /\ ~CfxHoldsKey(task.params.from)) =>
      task.submitted = None

\* C7: a request whose gas/collateral estimation failed makes no submission
\* and ends in an error.
C7_FailedEstimationNeverSubmits ==
  \A t \in Tasks :
    LET task == cfxTask[t] IN
    (task.op = "processTransaction" /\ task.estimation = "failed") =>
      /\ task.submitted = None
      /\ task.pc = "done" => task.outcome.kind = "throw"

\* The caller supplied all of from, to, value, data, nonce, gas, gasPrice.
FullySpecified(params) ==
  /\ IsSome(params.from) /\ IsSome(params.to) /\ IsSome(params.value)
  /\ IsSome(params.data) /\ IsSome(params.nonce) /\ IsSome(params.gas)
  /\ IsSome(params.gasPrice)

\* C9: when the caller supplies all seven fields, the payload handed to
\* conflux.cfx.sendTransaction carries exactly those seven values.
C9_CompleteInputUnchanged ==
  \A t \in Tasks :
    LET task == cfxTask[t] IN
    (task.op = "processTransaction" /\ FullySpecified(task.params)
       /\ IsSome(task.submitted)) =>
      LET payload == Val(task.submitted) IN
      /\ payload.from = task.params.from
      /\ payload.to = task.params.to
      /\ payload.value = task.params.value
      /\ payload.data = task.params.data
      /\ payload.nonce = task.params.nonce
      /\ payload.gas = task.params.gas
      /\ payload.gasPrice = task.params.gasPrice

(***************************************************************************)
(* Properties of the claim-chain wrapper (SpecReef).                       *)
(***************************************************************************)
\* C8: every transaction handed to signer.sendTransaction has `from`,
\* nonce, gas limit and gas price set.
C8_SubmittedIsComplete ==
  \A t \in Tasks :
    IsSome(reefTask[t].submitted) =>
      LET tx == Val(reefTask[t].submitted) IN
      /\ IsSome(tx.from)
      /\ IsSome(tx.nonce)
      /\ IsSome(tx.gasLimit)
      /\ IsSome(tx.gasPrice)

\* C10: a request without `from` is composed with `from` equal to the first
\* address of getAccounts(), in sendTransaction and in estimateGas.
C10_FromDefaultsToFirstAccount ==
  \A t \in Tasks :
    LET task == reefTask[t] IN
    (task.op \in {"sendTransaction", "estimateGas"} /\ task.composed
       /\ task.pc # "done"
       /\ ~IsSome(task.params.from)) =>
      task.tx.from = task.firstAccount

\* C11: a check that reads epoch e with last known epoch L reports no
\* rollback when e >= L, a threatening one when e < L and e <= L - W, a
\* harmless one otherwise (L = 100, W = 5: 96 harmless, 94 threatening); a
\* check whose read succeeded always lets call() go on, whatever the class.
C11_RollbackClassification ==
  /\ RollbackClassFor(5, 96, 100) = "harmless"
  /\ RollbackClassFor(5, 94, 100) = "threatening"
  /\ RollbackClassFor(5, 100, 100) = "none"
  /\ [][\A t \in Tasks :
          (cfxTask[t].pc = "call_check" /\ cfxTask'[t].pc # "call_check") =>
            \/ /\ cfxTask'[t].pc = "done"
               /\ cfxTask'[t].checked = None
               /\ cfxTask'[t].outcome = Throws(ThrownRpcError)
            \/ /\ cfxTask'[t].pc = "call_resume"
               /\ IsSome(cfxTask'[t].checked)
               /\ LET e == Val(cfxTask'[t].checked)
                      L == lastKnownEpochNumber
                  IN cfxTask'[t].rollback =
                       IF e >= L THEN "none"
                       ELSE IF e <= L - InterleaveEpochs THEN "threatening"
                       ELSE "harmless"]_vars

\* C11 witness: a check classified a rollback as harmless and the call went
\* on to query the chain.
C11_Witness ==
  \E t \in Tasks :
    /\ cfxTask[t].op = "call"
    /\ cfxTask[t].rollback = "harmless"
    /\ cfxTask[t].pc = "call_rpc"

\* C12: lastKnownEpochNumber is 0 after construction, and a rollback check
\* that read an epoch leaves lastKnownEpochNumber equal to that epoch, be it
\* higher than, equal to or lower than the value before.
C12_LastObservedWins ==
  /\ lastKnownEpochNumber = 0
  /\ [][\A t \in Tasks :
          (cfxTask[t].pc = "call_check" /\ cfxTask'[t].pc = "call_resume") =>
            lastKnownEpochNumber' = Val(cfxTask'[t].checked)]_vars

\* C12 witness: a check read an epoch lower than the last known one (a
\* threatening rollback), and the lower epoch is now the last known one.
C12_Witness ==
  \E t \in Tasks :
    /\ cfxTask[t].pc = "call_resume"
    /\ cfxTask[t].rollback = "threatening"
    /\ cfxTask[t].checked = Some(0)
    /\ lastKnownEpochNumber = 0

\* C13: the first request a call or processTransaction makes to the chain
\* is the read of the epoch with the configured label, and the rollback
\* check has run by the time any later request is made.
C13_EpochRereadFirst ==
  \A t \in Tasks :
    LET task == cfxTask[t] IN
    (task.op \in {"call", "processTransaction"} /\ task.rpc # <<>>) =>
      /\ task.rpc[1] = "getEpochNumber(epochLabel)"
      /\ Len(task.rpc) > 1 => IsSome(task.checked)

\* C14: the epoch call() passes to conflux.call is lastKnownEpochNumber -
\* interleaveEpochs at the moment the query is issued, whatever epoch the
\* caller passed.
C14_CallEpochIsLastKnownMinusWindow ==
  [][\A t \in Tasks :
       (cfxTask[t].pc = "call_resume" /\ cfxTask'[t].pc = "call_rpc") =>
         cfxTask'[t].callEpoch = Some(lastKnownEpochNumber' - InterleaveEpochs)]_vars

\* C14 witness: the caller asked for an epoch and the query went out with a
\* different one.
C14_Witness ==
  \E t \in Tasks :
    /\ cfxTask[t].pc = "call_rpc"
    /\ cfxTask[t].epochArg = Some(MaxEpoch)
    /\ cfxTask[t].checked = Some(MaxEpoch)
    /\ cfxTask[t].callEpoch = Some(MaxEpoch - InterleaveEpochs)

\* C15: with self-estimation on, an oracle price above the ceiling ends
\* processTransaction with GasPriceExceeded (code -32099) before any other
\* request to the chain; a price at or below the ceiling is never rejected
\* with that error.
C15_GasPriceCeiling ==
  \A t \in Tasks :
    LET task == cfxTask[t] IN
    (task.op = "processTransaction" /\ IsSome(task.oraclePrice)) =>
      IF Val(task.oraclePrice) > DefaultGasPrice
      THEN /\ task.pc = "done"
           /\ task.outcome = Throws(GasPriceExceeded)
           /\ TypedCode(task.outcome.exc) = -32099
           /\ task.rpc = <<"getGasPrice">>
           /\ task.nonce = None
           /\ task.submitted = None
      ELSE task.outcome.exc # GasPriceExceeded

\* C15 witness: the oracle answered one above the ceiling and the request
\* was rejected.
C15_Witness ==
  \E t \in Tasks :
    /\ cfxTask[t].op = "processTransaction"
    /\ cfxTask[t].oraclePrice = Some(DefaultGasPrice + 1)
    /\ cfxTask[t].pc = "done"

\* C16: once setup() has completed, getAccounts() returns the same ordered
\* list before and after every step of every operation (sends, estimations,
\* failed requests).  The epoch-chain wrapper builds its list from
\* conflux.wallet, which only the constructor writes.
C16_AccountsFixedAfterSetup ==
  [][setupPc = "ready" => ReefGetAccounts' = ReefGetAccounts]_vars

\* C16 witness: after setup an estimateGas without `from` read the first
\* account and completed, and all the addresses are still listed.
C16_Witness ==
  \E t \in Tasks :
    /\ setupPc = "ready"
    /\ reefTask[t].op = "estimateGas"
    /\ reefTask[t].params.from = None
    /\ reefTask[t].pc = "done"
    /\ Len(ReefGetAccounts) = NumAddresses

(***************************************************************************)
(* Properties of the error normalisation (SpecServer).                     *)
(***************************************************************************)
\* C17: a thrown object that carries a code and a message is answered with
\* an error of that same code and that same message.
C17_CodedErrorPassesThrough ==
  \A s \in Slots :
    LET e == awaited[s].exc IN
    (reqPc[s] = "done" /\ awaited[s].kind = "throw" /\ e.t = "object"
       /\ TruthyNum(e.code) /\ IsSome(e.message)) =>
      /\ Len(sent[s]) = 1
      /\ sent[s][1].hasError
      /\ Val(sent[s][1].error).shape = "object"
      /\ Val(sent[s][1].error).code = e.code
      /\ Val(sent[s][1].error).message = e.message

\* C18: a thrown value that carries no code is answered with an error of
\* code -32015, whose message is "Execution error" when the value has data
\* and the stringified value otherwise, and whose data is the value's data.
C18_UncodedErrorIsExecutionError ==
  \A s \in Slots :
    LET e == awaited[s].exc IN
    (reqPc[s] = "done" /\ awaited[s].kind = "throw" /\ ~IsSome(e.code)) =>
      /\ Len(sent[s]) = 1
      /\ sent[s][1].hasError
      /\ Val(sent[s][1].error).shape = "object"
      /\ Val(sent[s][1].error).code = Some(-32015)
      /\ Val(sent[s][1].error).message =
           Some(IF IsSome(e.data) THEN "Execution error" ELSE JSONStringifyThrown(e))
      /\ Val(sent[s][1].error).data = e.data

\* C19: every error a response carries is an object with a code and a
\* message; when the body is not JSON it is the object with code -32700.
C19_ErrorHasCanonicalShape ==
  \A s \in Slots : \A i \in 1..Len(sent[s]) :
    sent[s][i].hasError =>
      /\ Val(sent[s][i].error).shape = "object"
      /\ IsSome(Val(sent[s][i].error).code)
      /\ IsSome(Val(sent[s][i].error).message)

\* The messages the precedence rule allows: reason, else error.reason, else
\* the thrown value stringified (by toString or as JSON); each as it is or
\* within double quotes.
MessagesByPrecedence(e) ==
  LET plain == IF IsSome(e.reason) THEN {Val(e.reason)}
               ELSE IF IsSome(e.error) /\ IsSome(Val(e.error).reason)
                    THEN {Val(Val(e.error).reason)}
               ELSE {ExceptionToString(e), JSONStringifyThrown(e)}
  IN {Some(m) : m \in plain} \cup {Some(Quote(m)) : m \in plain}

\* C20: the message of the error in the response is the thrown value's
\* reason if present, else its error.reason, else the stringified thrown
\* value.
C20_MessagePrecedence ==
  \A s \in Slots :
    LET e == awaited[s].exc IN
    (reqPc[s] = "done" /\ awaited[s].kind = "throw" /\ ~escaped[s]) =>
      /\ Len(sent[s]) = 1
      /\ sent[s][1].hasError
      /\ Val(sent[s][1].error).shape = "object"
      /\ Val(sent[s][1].error).message \in MessagesByPrecedence(e)

\* C21: every response, result or error, the -32700 fallback included,
\* carries the id and the jsonrpc of the request of its own invocation, also
\* while another request is in flight.
C21_ResponseEchoesItsRequest ==
  \A s \in PairSlots : \A i \in 1..Len(sent[s]) :
    /\ sent[s][i].id = request[s].id
    /\ sent[s][i].jsonrpc = request[s].jsonrpc

\* C21 witness: request 1 was answered with the -32700 fallback under its
\* own id while request 2 was still awaiting its upstream call.
C21_Witness ==
  /\ request[1].id = 1
  /\ request[2].id = 2
  /\ reqPc[2] = "awaitUpstream"
  /\ Len(sent[1]) = 1
  /\ sent[1][1].id = 1
  /\ sent[1][1].error = Some(InvalidJsonFallback)

C23_OtherFilterIdFails ==
  \A t \in Tasks :
    (reefTask[t].op = "mockGetFilterChanges" /\ reefTask[t].pc = "done"
       /\ reefTask[t].filterId # "0x1") =>
      reefTask[t].outcome.kind = "throw"

\* C24: once setup has completed the seed phrase held is the empty string,
\* whatever operation runs afterwards.
C24_SeedErasedAfterSetup ==
  setupPc = "ready" => seedPhrase = ""

C24_Witness ==
  /\ setupPc = "ready" /\ seedPhrase = ""
  /\ Len(reefAccounts) = NumAddresses
  /\ reefTask[1].op = "sendTransaction" /\ reefTask[1].pc = "done"
  /\ IsSome(reefTask[1].submitted)

\* C25: whenever setup() has terminated, by completing or by a failure of
\* one of its awaited calls, the seed phrase held is the empty string.
C25_SeedErasedOnEveryPath ==
  setupPc \in {"ready", "failed"} => seedPhrase = ""

\* C26: during setup the accounts listed are those of the identities
\* 0, 1, ... handled so far, in that order, each of them claimed on the
\* chain; the identity being handled is not listed yet; and a claim is
\* issued only for the identity being handled, when it was found unclaimed.
C26_ListedOnlyOnceClaimed ==
  /\ [](setupPc # "ready" =>
         /\ Len(reefAccounts) = Len(reefSigners)
         /\ Len(reefAccounts) = setupJ
         /\ \A i \in 1..Len(reefAccounts) :
              /\ reefSigners[i] = i - 1
              /\ reefAccounts[i] = EvmAddress(i - 1)
              /\ claimed[i - 1])
  /\ [][claimsIssued' # claimsIssued =>
         /\ ~claimed[setupJ]
         /\ setupJ' = setupJ
         /\ claimsIssued' = Append(claimsIssued, setupJ)]_vars

C26_Witness ==
  /\ setupPc = "isClaimed" /\ setupJ = 1
  /\ claimsIssued = <<0>> /\ claimed[0]
  /\ reefAccounts = <<EvmAddress(0)>>

\* C27: the nonce a transaction request takes is the next nonce the chain
\* holds for its sender when the request reads it, whatever other requests
\* of the same sender are in flight; hence two requests in flight can both
\* read the same nonce and both submit with it.
C27_NonceReadIsNotSerialized ==
  [][\A t \in PairTasks :
       (cfxTask[t].pc = "ptx_nonce" /\ cfxTask'[t].pc = "ptx_estimate") =>
         cfxTask'[t].nonce = Some(chainNonce[Val(cfxTask[t].params.from)])]_vars

C27_Witness ==
  /\ cfxTask[1].pc = "ptx_send" /\ cfxTask[2].pc = "ptx_send"
  /\ cfxTask[1].params.nonce = None /\ cfxTask[2].params.nonce = None
  /\ Val(cfxTask[1].submitted).from = Val(cfxTask[2].submitted).from
  /\ Val(cfxTask[1].submitted).nonce = Val(cfxTask[2].submitted).nonce

\* The payload of a transaction request, from what the request was given
\* and what its own queries to the chain answered.
PayloadFromOwnReads(task) ==
  [from |-> task.params.from,
   to |-> task.params.to,
   gasPrice |-> IF TruthyNum(task.params.gasPrice) THEN task.params.gasPrice
                ELSE Some(DefaultGasPrice),
   value |-> IF TruthyStr(task.params.value) THEN task.params.value ELSE Some("0x0"),
   data |-> IF TruthyStr(task.params.data) THEN task.params.data ELSE Some("null"),
   nonce |-> task.nonce,
   epochHeight |-> task.epoch,
   chainId |-> Some(NetworkId),
   storageLimit |-> Some(IF task.estimation = "ok" THEN EstimatedStorage ELSE 0),
   gas |-> IF task.estimation = "ok" THEN Some(EstimatedGasLimit) ELSE task.params.gas]

\* C28: the payload a transaction request submits is made of its own
\* parameters and its own reads of the chain; lastKnownEpochNumber and the
\* rollback checks of concurrent calls have no part in it.
C28_PayloadIgnoresRollbackState ==
  \A t \in PairTasks :
    (cfxTask[t].op = "processTransaction" /\ IsSome(cfxTask[t].submitted)) =>
      Val(cfxTask[t].submitted) = PayloadFromOwnReads(cfxTask[t])

C28_Witness ==
  /\ cfxTask[1].op = "processTransaction" /\ cfxTask[1].pc = "ptx_send"
  /\ cfxTask[2].op = "call" /\ cfxTask[2].checked = Some(MaxEpoch)
  /\ lastKnownEpochNumber = MaxEpoch
  /\ Val(cfxTask[1].submitted).epochHeight = Some(0)

\* C29: with self-estimation on, the gasPrice of a submitted payload is at
\* most the ceiling, conflux.defaultGasPrice.
C29_SubmittedPriceWithinCeiling ==
  \A t \in Tasks :
    (estimateGasPrice /\ cfxTask[t].op = "processTransaction"
       /\ IsSome(cfxTask[t].submitted)) =>
      Val(Val(cfxTask[t].submitted).gasPrice) <= DefaultGasPrice

\* C30: processEthSignMessage with an address of the wallet returns a
\* signature, made by signMessage of that address's account.
C30_SignReturnsSignature ==
  \A t \in Tasks :
    LET task == cfxTask[t] IN
    (task.op = "processEthSignMessage" /\ task.pc = "done"
       /\ CfxHoldsKey(task.address)) =>
      /\ task.outcome.kind = "return"
      /\ IsSome(task.outcome.value)
      /\ Len(signMessageCalls) > 0
      /\ signMessageCalls[Len(signMessageCalls)] = Val(task.address)

\* C31: with calls in flight together, the epoch a call hands to
\* conflux.call is the epoch its own rollback check read, minus
\* interleaveEpochs.
C31_CallEpochFromOwnCheck ==
  \A t \in PairTasks :
    (cfxTask[t].op = "call" /\ IsSome(cfxTask[t].callEpoch)) =>
      /\ IsSome(cfxTask[t].checked)
      /\ Val(cfxTask[t].callEpoch) = Val(cfxTask[t].checked) - InterleaveEpochs

\* C32: a failure thrown as { reason, body: { error: { code, message } } },
\* without a code of its own, is answered with an error that carries that
\* code, and the reason (or the body's message) as its message.
C32_TypedFailureKeepsItsCode ==
  \A s \in Slots :
    LET e == awaited[s].exc IN
    (/\ reqPc[s] = "done" /\ awaited[s].kind = "throw"
     /\ e.t = "object" /\ ~e.isError /\ e.code = None /\ IsSome(e.reason)
     /\ e.message = None /\ e.data = None /\ e.error = None
     /\ e.body = Some(BodyNoSigningKey)) =>
      /\ Len(sent[s]) = 1
      /\ sent[s][1].hasError
      /\ Val(sent[s][1].error).shape = "object"
      /\ Val(sent[s][1].error).code = Some(TypedCode(e))
      /\ Val(sent[s][1].error).message \in
           {e.reason, Val(Val(e.body).doc.error).message}
====
